---------------------------- MODULE Spec2Model ----------------------------
(***************************************************************************)
(* A model of src/dashboard.py, the healthcare equity dashboard: group     *)
(* assignment (_extract_race, _assign_group), the paginated patient fetch  *)
(* and the per-patient condition fetch (fetch_patients,                    *)
(* fetch_conditions_for_patient, fetch_all_conditions) and the script body *)
(* that merges the tables and computes the contingency tables, chi-square  *)
(* tests and risk ratios.                                                  *)
(*                                                                         *)
(* Three specifications share the variables:                               *)
(*   SpecGroup     one value, or one FHIR patient resource, classified     *)
(*   SpecFetch     one run of fetch_patients then fetch_all_conditions     *)
(*   SpecAnalysis  one run of the script body from the combined tables     *)
(* A Python string is a sequence of one-character strings, so that strip() *)
(* and lower() are computed and not assumed.                               *)
(***************************************************************************)
EXTENDS Integers, Sequences, FiniteSets, TLC

VARIABLES
    \* SpecGroup
    gpc,        \* position: "extract", "assign", "done"
    ginput,     \* how the input was built: [kind, pre, word, style, post] or [kind, res]
    race,       \* the Race column value (a string), NoStr before it is known
    group,      \* the Group column value, NoValue before it is known
    \* SpecFetch
    fpc,        \* position in fetch_patients / fetch_all_conditions
    url,        \* fetch_patients: url
    page,       \* fetch_patients: page
    rows,       \* fetch_patients: rows (one record per patient entry)
    requests,   \* number of requests.get calls fetch_patients has made
    warnings,   \* st.warning calls so far
    failures,   \* network failures so far, as [at, page | pid]
    cidx,       \* fetch_all_conditions: i of enumerate(pids)
    dfs,        \* fetch_all_conditions: dfs (one sequence of rows per non-empty frame)
    fexc,       \* exception that left the fetch code uncaught, or NoValue
    \* SpecAnalysis
    pc,         \* position in the script body
    all_pat,    \* combined patient table
    all_cond,   \* combined condition table
    merged,     \* pd.merge(all_pat, all_cond, ...)
    cont,       \* contingency counts per condition
    minor_tot,
    major_tot,
    ridx,       \* position of cont.iterrows()
    tables,     \* the 2x2 tables handed to chi2_contingency so far
    records,    \* the result records
    res_df,
    sig_df,
    out,        \* what was handed to streamlit (the presentation sink), in order
    exc         \* exception that ended the script, or NoValue

varsG == <<gpc, ginput, race, group>>
varsF == <<fpc, url, page, rows, requests, warnings, failures, cidx, dfs, fexc>>
varsA == <<pc, all_pat, all_cond, merged, cont, minor_tot, major_tot, ridx,
           tables, records, res_df, sig_df, out, exc>>
vars == <<varsG, varsF, varsA>>

NoValue == "<none>"
\* a string field that is absent (no Python string equals it)
NoStr == <<"<none>">>

\* ------------------------------------------------------------------------
\* Program constants

MAX_PAGES == 10
MIN_CASES == 5

\* ------------------------------------------------------------------------
\* Strings

Letters == <<"a", "b", "c", "d", "e", "f", "g", "h", "i", "j", "k", "l", "m", "n", "o", "p", "q", "r", "s", "t", "u", "v", "w", "x", "y", "z">>
Uppers == <<"A", "B", "C", "D", "E", "F", "G", "H", "I", "J", "K", "L", "M", "N", "O", "P", "Q", "R", "S", "T", "U", "V", "W", "X", "Y", "Z">>

\* the characters str.strip() removes (the ASCII ones)
Whitespace == {" ", "\t", "\n", "\r", "\f"}

LowerChar(c) ==
    IF \E i \in 1..Len(Uppers) : Uppers[i] = c
    THEN Letters[CHOOSE i \in 1..Len(Uppers) : Uppers[i] = c]
    ELSE c

UpperChar(c) ==
    IF \E i \in 1..Len(Letters) : Letters[i] = c
    THEN Uppers[CHOOSE i \in 1..Len(Letters) : Letters[i] = c]
    ELSE c

\* str.lower()
Lower(s) == [i \in 1..Len(s) |-> LowerChar(s[i])]

RECURSIVE LStrip(_)
LStrip(s) ==
    IF s # <<>> /\ Head(s) \in Whitespace THEN LStrip(Tail(s)) ELSE s

RECURSIVE RStrip(_)
RStrip(s) ==
    IF s # <<>> /\ s[Len(s)] \in Whitespace
    THEN RStrip(SubSeq(s, 1, Len(s) - 1))
    ELSE s

\* str.strip()
Strip(s) == RStrip(LStrip(s))

W_white == <<"w", "h", "i", "t", "e">>
W_usa == <<"u", "s", "a">>
W_united_states == <<"u", "n", "i", "t", "e", "d", " ", "s", "t", "a", "t", "e", "s">>
W_usa_long == <<"u", "n", "i", "t", "e", "d", " ", "s", "t", "a", "t", "e", "s", " ", "o", "f", " ", "a", "m", "e", "r", "i", "c", "a">>
W_unknown == <<"u", "n", "k", "n", "o", "w", "n">>
W_empty == <<>>
W_asian == <<"a", "s", "i", "a", "n">>
W_black == <<"b", "l", "a", "c", "k">>
W_germany == <<"g", "e", "r", "m", "a", "n", "y">>
W_whites == <<"w", "h", "i", "t", "e", "s">>
W_us == <<"u", "s">>
W_nan == <<"n", "a", "n">>
W_none == <<"n", "o", "n", "e">>
W_w_hite == <<"w", " ", "h", "i", "t", "e">>
W_other == <<"o", "t", "h", "e", "r">>
W_unitedstates == <<"u", "n", "i", "t", "e", "d", "s", "t", "a", "t", "e", "s">>

\* the default of .get("display", "Unknown") and .get("country", "Unknown")
S_Unknown == <<"U", "n", "k", "n", "o", "w", "n">>

\* ------------------------------------------------------------------------
\* _extract_race and _assign_group (definitions introduced as "variant" are
\* the code with one plausible slip, used to see that a property can fail)

\* A patient resource: ext is its "extension" list, each element
\* [race |-> the url ends with us-core-race, display |-> string or NoStr];
\* address is its "address" list, each element [country |-> string or NoStr].
_extract_race(res) ==
    IF \E i \in 1..Len(res.ext) : res.ext[i].race
    THEN LET i == CHOOSE k \in 1..Len(res.ext) :
                      res.ext[k].race /\ \A j \in 1..(k - 1) : ~res.ext[j].race
         IN  IF res.ext[i].display = NoStr THEN S_Unknown ELSE res.ext[i].display
    ELSE IF res.address # <<>>
         THEN IF res.address[1].country = NoStr THEN S_Unknown
              ELSE res.address[1].country
         ELSE S_Unknown

MajorityValues == {W_white, W_usa, W_united_states, W_usa_long}

\* variant: the value is not trimmed
AssignNoStrip(val) ==
    LET v == Lower(val)
    IN  IF v \in MajorityValues THEN "Majority"
        ELSE IF v = W_unknown \/ v = <<>> THEN "Unknown"
        ELSE "Minority"

\* variant: the case is not folded
AssignNoLower(val) ==
    LET v == Strip(val)
    IN  IF v \in MajorityValues THEN "Majority"
        ELSE IF v = W_unknown \/ v = <<>> THEN "Unknown"
        ELSE "Minority"

_assign_group(val) ==
    LET v == Lower(Strip(val))
    IN  IF v \in MajorityValues THEN "Majority"
        ELSE IF v = W_unknown \/ v = <<>> THEN "Unknown"
        ELSE "Minority"

\* ------------------------------------------------------------------------
\* SpecGroup: the inputs

Words == {W_white, W_usa, W_united_states, W_usa_long, W_unknown, W_empty,
          W_asian, W_black, W_germany, W_whites, W_us, W_nan, W_none, W_w_hite,
          W_other, W_unitedstates}

Styles == {"lower", "upper", "first", "words"}

\* the word as it is written in the data: all lower case, all upper case, first
\* letter in upper case, or every word's first letter in upper case
ApplyCase(word, style) ==
    [i \in 1..Len(word) |->
        CASE style = "lower" -> word[i]
          [] style = "upper" -> UpperChar(word[i])
          [] style = "first" -> IF i = 1 THEN UpperChar(word[i]) ELSE word[i]
          [] OTHER -> IF i = 1 \/ word[i - 1] = " " THEN UpperChar(word[i])
                      ELSE word[i]]

Pads == {<<>>, <<" ">>, <<"\t", " ">>, <<" ", "\n">>}

\* the values of a Race column (load_synthea) handed to _assign_group
CsvInputs ==
    [kind : {"csv"}, pre : Pads, word : Words, style : Styles, post : Pads,
     res : {NoValue}]

Raw(i) == i.pre \o ApplyCase(i.word, i.style) \o i.post

\* the race displays and the countries of the patient resources
Displays == {ApplyCase(W_white, "first"), ApplyCase(W_white, "upper"),
             ApplyCase(W_asian, "first"), ApplyCase(W_black, "first"),
             ApplyCase(W_unknown, "first"), <<" ">> \o W_white}
Countries == {ApplyCase(W_usa, "upper"), ApplyCase(W_us, "upper"),
              ApplyCase(W_united_states, "words"), ApplyCase(W_germany, "first"),
              ApplyCase(W_unknown, "lower"), W_empty}

OtherExt == [race |-> FALSE, display |-> NoStr]
RaceExts == [race : {TRUE}, display : Displays \cup {NoStr}]
ExtLists == {<<>>, <<OtherExt>>} \cup {<<e>> : e \in RaceExts}
              \cup {<<OtherExt, e>> : e \in RaceExts}
AddressLists == {<<>>} \cup {<<[country |-> c]>> : c \in Countries \cup {NoStr}}
Resources == [ext : ExtLists, address : AddressLists]

FhirInputs ==
    [kind : {"fhir"}, pre : {<<>>}, word : {<<>>}, style : {"lower"}, post : {<<>>},
     res : Resources]

IdleF ==
    /\ fpc = "idle" /\ url = NoValue /\ page = 0 /\ rows = <<>> /\ requests = 0
    /\ warnings = <<>> /\ failures = <<>> /\ cidx = 0 /\ dfs = <<>>
    /\ fexc = NoValue

IdleA ==
    /\ pc = "idle" /\ all_pat = <<>> /\ all_cond = <<>> /\ merged = NoValue
    /\ cont = NoValue /\ minor_tot = 0 /\ major_tot = 0 /\ ridx = 0
    /\ tables = <<>> /\ records = <<>> /\ res_df = NoValue /\ sig_df = NoValue
    /\ out = <<>> /\ exc = NoValue

IdleG == gpc = "idle" /\ ginput = NoValue /\ race = NoStr /\ group = NoValue

InitGroup ==
    /\ ginput \in CsvInputs \cup FhirInputs
    /\ gpc = IF ginput.kind = "csv" THEN "assign" ELSE "extract"
    /\ race = IF ginput.kind = "csv" THEN Raw(ginput) ELSE NoStr
    /\ group = NoValue
    /\ IdleF /\ IdleA

\* "Race": _extract_race(res)
ExtractRace ==
    /\ gpc = "extract"
    /\ race' = _extract_race(ginput.res)
    /\ gpc' = "assign"
    /\ UNCHANGED <<ginput, group, varsF, varsA>>

\* "Group": _assign_group(_extract_race(res)), pats["Race"].apply(_assign_group)
AssignGroup ==
    /\ gpc = "assign"
    /\ group' = _assign_group(race)
    /\ gpc' = "done"
    /\ UNCHANGED <<ginput, race, varsF, varsA>>

NextGroup == ExtractRace \/ AssignGroup

SpecGroup == InitGroup /\ [][NextGroup]_vars

\* ------------------------------------------------------------------------
\* Claims on SpecGroup

\* what the claim says of a word written in lower case
ClaimedGroup(word) ==
    IF word \in {W_white, W_usa, W_united_states, W_usa_long} THEN "Majority"
    ELSE IF word \in {W_unknown, W_empty} THEN "Unknown"
    ELSE "Minority"

\* C1: _assign_group, after trimming surrounding whitespace and ignoring case,
\* gives Majority for "white", "usa", "united states" and "united states of
\* america", Unknown for "unknown" and the empty string, Minority for every
\* other value; the result is always one of Minority, Majority, Unknown.
C1_AssignGroupClassifies ==
    gpc = "done" =>
        /\ group \in {"Minority", "Majority", "Unknown"}
        /\ ginput.kind = "csv" => group = ClaimedGroup(ginput.word)
        /\ ginput.kind = "fhir" =>
               group = ClaimedGroup(Lower(Strip(race)))

\* a padded, capitalised Majority value has been classified
C1_Witness ==
    /\ gpc = "done" /\ ginput.kind = "csv"
    /\ ginput.word = W_usa_long /\ ginput.style = "words"
    /\ ginput.pre # <<>> /\ ginput.post # <<>>
    /\ group = "Majority"

\* the claim's reading of a resource: its race, when it states one other than
\* unknown, and the country of its first address, when it states one
RaceOf(res) ==
    IF \E i \in 1..Len(res.ext) : res.ext[i].race /\ res.ext[i].display # NoStr
    THEN Lower(Strip((res.ext[CHOOSE i \in 1..Len(res.ext) :
                          res.ext[i].race /\ res.ext[i].display # NoStr]).display))
    ELSE W_unknown
CountryOf(res) ==
    IF res.address # <<>> /\ res.address[1].country # NoStr
    THEN Lower(Strip(res.address[1].country))
    ELSE W_unknown
Stated(v) == v # W_unknown /\ v # W_empty

\* C8: for every patient resource, Group = Minority if and only if the race is
\* not White or the address country is not USA (a value that is missing or
\* unknown counts as neither).
C8_MinorityIffRaceOrCountry ==
    (gpc = "done" /\ ginput.kind = "fhir") =>
        LET r == RaceOf(ginput.res)
            c == CountryOf(ginput.res)
        IN  (group = "Minority") <=>
                \/ (Stated(r) /\ r # W_white)
                \/ (Stated(c) /\ c \notin {W_usa, W_united_states, W_usa_long})

\* ------------------------------------------------------------------------
\* SpecFetch: fetch_patients() and then, when it returned rows,
\* fetch_all_conditions(live_pat["ID"].tolist()).  The server and the network
\* are free: each request fails, answers a body r.json() cannot turn into a
\* bundle, or answers a bundle with some entries and any "next" link.

MaxEntries == 2     \* patient entries in one bundle
MaxRows == 3        \* patient rows over the whole run
MaxCondEntries == 1 \* condition entries of one patient

PATIENT_EP == "Patient?_count=200"

\* fetch_patients(max_pages: int = MAX_PAGES), called without an argument
max_pages == MAX_PAGES

\* what a bundle's "next" link can hold: no such link (None), a link without
\* url (None), an empty url, the first page again, or another page
NextLinks == {NoValue, "", PATIENT_EP, "Patient?page=a", "Patient?page=b"}

Falsy == {NoValue, ""}

InitFetch ==
    /\ fpc = "patients"
    /\ url = PATIENT_EP /\ page = 0 /\ rows = <<>>
    /\ requests = 0 /\ warnings = <<>> /\ failures = <<>>
    /\ cidx = 0 /\ dfs = <<>> /\ fexc = NoValue
    /\ IdleG /\ IdleA

\* variant: one page too many
LoopConditionOffByOne == url \notin Falsy /\ page <= max_pages

\* while url and page < max_pages
LoopCondition == url \notin Falsy /\ page < max_pages

\* return pd.DataFrame(rows), then line 158 of the script
AfterPatients(rs) == IF rs = <<>> THEN "done" ELSE "conditions"

\* requests.get or raise_for_status raises: warn and break
PatientFetchFails ==
    /\ fpc = "patients" /\ LoopCondition
    /\ requests' = requests + 1
    /\ warnings' = Append(warnings, "Patient fetch error")
    /\ failures' = Append(failures, [at |-> "patients", warned |-> TRUE,
                                     kept |-> Len(rows)])
    /\ fpc' = AfterPatients(rows)
    /\ UNCHANGED <<url, page, rows, cidx, dfs, fexc, varsG, varsA>>

\* the request succeeds but r.json(), or reading the bundle, raises: outside
\* the try, so the exception leaves fetch_patients
PatientBundleMalformed ==
    /\ fpc = "patients" /\ LoopCondition
    /\ requests' = requests + 1
    /\ fexc' = "ValueError"
    /\ fpc' = "raised"
    /\ UNCHANGED <<url, page, rows, warnings, failures, cidx, dfs, varsG, varsA>>

\* one bundle: a row per entry, page += 1, url = the "next" link or None
PatientPage ==
    /\ fpc = "patients" /\ LoopCondition
    /\ \E n \in 0..MaxEntries, nxt \in NextLinks :
          /\ Len(rows) + n <= MaxRows
          /\ rows' = rows \o [k \in 1..n |-> [ID |-> Len(rows) + k]]
          /\ url' = nxt
    /\ requests' = requests + 1
    /\ page' = page + 1
    /\ UNCHANGED <<fpc, warnings, failures, cidx, dfs, fexc, varsG, varsA>>

\* the loop condition is false: return
PatientsReturn ==
    /\ fpc = "patients" /\ ~LoopCondition
    /\ fpc' = AfterPatients(rows)
    /\ UNCHANGED <<url, page, rows, requests, warnings, failures, cidx, dfs,
                   fexc, varsG, varsA>>

\* except Exception: return pd.DataFrame()
ConditionFailure(pid) ==
    /\ failures' = Append(failures, [at |-> "conditions", warned |-> FALSE,
                                     kept |-> Len(dfs)])
    /\ UNCHANGED warnings

\* fetch_conditions_for_patient(pid) fails: an empty frame, not appended
ConditionFetchFails ==
    /\ fpc = "conditions" /\ cidx < Len(rows)
    /\ ConditionFailure(rows[cidx + 1].ID)
    /\ cidx' = cidx + 1
    /\ UNCHANGED <<fpc, url, page, rows, requests, dfs, fexc, varsG, varsA>>

\* r.json() raises in fetch_conditions_for_patient: outside the try
ConditionBundleMalformed ==
    /\ fpc = "conditions" /\ cidx < Len(rows)
    /\ fexc' = "ValueError"
    /\ fpc' = "raised"
    /\ UNCHANGED <<url, page, rows, requests, warnings, failures, cidx, dfs,
                   varsG, varsA>>

\* one patient's bundle: a row per entry; the frame is kept when not empty
ConditionBundle ==
    /\ fpc = "conditions" /\ cidx < Len(rows)
    /\ \E n \in 0..MaxCondEntries :
          LET pid == rows[cidx + 1].ID
              df == [k \in 1..n |-> [Patient_ID |-> pid]]
          IN  dfs' = IF df # <<>> THEN Append(dfs, df) ELSE dfs
    /\ cidx' = cidx + 1
    /\ UNCHANGED <<fpc, url, page, rows, requests, warnings, failures, fexc,
                   varsG, varsA>>

\* the for loop of fetch_all_conditions is over: return the concatenation
ConditionsReturn ==
    /\ fpc = "conditions" /\ cidx = Len(rows)
    /\ fpc' = "done"
    /\ UNCHANGED <<url, page, rows, requests, warnings, failures, cidx, dfs,
                   fexc, varsG, varsA>>

NextFetch ==
    \/ PatientFetchFails \/ PatientBundleMalformed \/ PatientPage
    \/ PatientsReturn
    \/ ConditionFetchFails \/ ConditionBundleMalformed \/ ConditionBundle
    \/ ConditionsReturn

\* The code is one sequential thread and every request has a timeout: a step
\* that can be taken is taken.
SpecFetch == InitFetch /\ [][NextFetch]_vars /\ WF_vars(NextFetch)

\* ------------------------------------------------------------------------
\* Claims on SpecFetch

PatientsOver == fpc \in {"conditions", "done", "raised"}

\* C3: fetch_patients always terminates and issues at most max_pages requests,
\* whatever the server returns: it stops at the first bundle without a next
\* link, when max_pages pages have been fetched, or at the first failed request.
C3_FetchPatientsTerminates ==
    /\ [](/\ requests <= max_pages
          /\ (fpc = "patients" /\ (url \in Falsy \/ page >= max_pages)) =>
                ~ENABLED (PatientPage \/ PatientFetchFails \/ PatientBundleMalformed)
          /\ PatientsOver =>
                \/ url \in Falsy
                \/ page = max_pages
                \/ requests = page + 1)
    /\ <>PatientsOver

\* the server chained next links until the page limit stopped the loop
C3_Witness ==
    /\ PatientsOver /\ requests = max_pages /\ page = max_pages
    /\ url \notin Falsy /\ failures = <<>>

\* C4: every network failure, of a patient page or of one patient's
\* conditions, is caught, reported to the user as a warning, and skipped with
\* the records obtained so far kept.
C4_FailuresCaughtAndWarned ==
    /\ \A i \in 1..Len(failures) : failures[i].warned
    /\ Len(warnings) = Len(failures)

\* ------------------------------------------------------------------------
\* SpecAnalysis: the script body from the combined tables on (lines 160-260).
\* A patient row is [ID, Group], a condition row [Patient_ID, Condition].

MaxMinority == 7 \* patients of group Minority
MaxMajority == 6 \* patients of group Majority
MaxUnk == 1     \* patients of group Unknown

\* the condition names, in sorted order
CondOrder == <<"A", "B", "C">>

Max(a, b) == IF a >= b THEN a ELSE b

Range(f) == {f[i] : i \in DOMAIN f}

\* Minority patients are 1.., Majority patients 101.., Unknown patients 201..
BuildPat(nMin, nMaj, nUnk) ==
    [i \in 1..(nMin + nMaj + nUnk) |->
        IF i <= nMin THEN [ID |-> i, Group |-> "Minority"]
        ELSE IF i <= nMin + nMaj THEN [ID |-> 100 + (i - nMin), Group |-> "Majority"]
        ELSE [ID |-> 200 + (i - nMin - nMaj), Group |-> "Unknown"]]

CondRows(ids, c) == [k \in 1..Len(ids) |-> [Patient_ID |-> ids[k], Condition |-> c]]

\* condition A for the first aMin Minority and aMaj Majority patients and for
\* every Unknown patient; condition B for no patient, for every patient, or
\* for the first MIN_CASES (when there are as many) of each of the two groups
BModes == {"none", "all", "some"}

Min(a, b) == IF a <= b THEN a ELSE b

BuildCond(pat, nMin, nMaj, nUnk, aMin, aMaj, bMode) ==
    CondRows([k \in 1..aMin |-> k], "A")
      \o CondRows([k \in 1..aMaj |-> 100 + k], "A")
      \o CondRows([k \in 1..nUnk |-> 200 + k], "A")
      \o CASE bMode = "all" -> CondRows([k \in 1..Len(pat) |-> pat[k].ID], "B")
           [] bMode = "some" ->
                 CondRows([k \in 1..Min(nMin, MIN_CASES) |-> k], "B")
                   \o CondRows([k \in 1..Min(nMaj, MIN_CASES) |-> 100 + k], "B")
           [] OTHER -> <<>>

\* rows that real tables also hold: a patient listed twice, a condition
\* recorded twice, and a condition of a patient that is in no patient table
WithExtraRows(t, extra, dup, other) ==
    IF extra THEN (IF dup /\ t # <<>> THEN Append(t, t[1]) ELSE t) \o other ELSE t

InitAnalysis ==
    /\ \E nMin \in 0..MaxMinority, nMaj \in 0..MaxMajority, nUnk \in 0..MaxUnk :
       \E aMin \in 0..nMin, aMaj \in 0..nMaj :
       \E bMode \in BModes, extra \in BOOLEAN :
          LET pat == BuildPat(nMin, nMaj, nUnk)
              cond == BuildCond(pat, nMin, nMaj, nUnk, aMin, aMaj, bMode)
          IN  /\ all_pat = WithExtraRows(pat, extra, TRUE, <<>>)
              /\ all_cond = WithExtraRows(cond, extra, TRUE,
                                <<[Patient_ID |-> 999, Condition |-> "C"]>>)
    /\ pc = "merge"
    /\ merged = <<>> /\ cont = <<>> /\ minor_tot = 0 /\ major_tot = 0 /\ ridx = 0
    /\ tables = <<>> /\ records = <<>> /\ res_df = <<>> /\ sig_df = <<>>
    /\ out = <<>> /\ exc = NoValue
    /\ IdleG /\ IdleF

\* variant: how="left": a patient without condition is kept, with NaN in the right columns
RECURSIVE MergeLeft(_, _)
MergeLeft(left, right) ==
    IF left = <<>> THEN <<>>
    ELSE LET l == Head(left)
             m == SelectSeq(right, LAMBDA r : r.Patient_ID = l.ID)
         IN  (IF m = <<>>
              THEN <<[ID |-> l.ID, Group |-> l.Group, Patient_ID |-> -1,
                      Condition |-> "NaN"]>>
              ELSE [k \in 1..Len(m) |->
                      [ID |-> l.ID, Group |-> l.Group,
                       Patient_ID |-> m[k].Patient_ID, Condition |-> m[k].Condition]])
             \o MergeLeft(Tail(left), right)

\* pd.merge(left, right, left_on="ID", right_on="Patient_ID", how="inner"):
\* one row per pair of rows with equal keys, in the order of the left keys
RECURSIVE Merge(_, _)
Merge(left, right) ==
    IF left = <<>> THEN <<>>
    ELSE LET l == Head(left)
             m == SelectSeq(right, LAMBDA r : r.Patient_ID = l.ID)
         IN  [k \in 1..Len(m) |->
                 [ID |-> l.ID, Group |-> l.Group,
                  Patient_ID |-> m[k].Patient_ID, Condition |-> m[k].Condition]]
             \o Merge(Tail(left), right)

MSG_NO_DATA == "error:No data available for visualisation."
MSG_NO_CONDITION == "info:No condition met the RR > 1.2 & p < 0.05 threshold."

\* lines 160-178: the merge and the three tables shown
MergeTables ==
    /\ pc = "merge"
    /\ merged' = Merge(all_pat, all_cond)
    /\ out' = out \o <<"table:all_pat", "table:all_cond", "table:merged">>
    /\ pc' = "check"
    /\ UNCHANGED <<all_pat, all_cond, cont, minor_tot, major_tot, ridx, tables,
                   records, res_df, sig_df, exc, varsG, varsF>>

\* variant: the message without st.stop()
CheckEmptyNoStop ==
    /\ pc = "check"
    /\ out' = IF merged = <<>> THEN Append(out, MSG_NO_DATA) ELSE out
    /\ pc' = "share"
    /\ UNCHANGED <<all_pat, all_cond, merged, cont, minor_tot, major_tot, ridx,
                   tables, records, res_df, sig_df, exc, varsG, varsF>>

\* if merged.empty: st.error(...); st.stop()
CheckEmpty ==
    /\ pc = "check"
    /\ IF merged = <<>>
       THEN out' = Append(out, MSG_NO_DATA) /\ pc' = "stopped"
       ELSE out' = out /\ pc' = "share"
    /\ UNCHANGED <<all_pat, all_cond, merged, cont, minor_tot, major_tot, ridx,
                   tables, records, res_df, sig_df, exc, varsG, varsF>>

\* lines 184-201: the condition filter and the share chart (the chart is the
\* presentation sink's; the shares divide by a group size that is at least 1)
ShareChart ==
    /\ pc = "share"
    /\ out' = Append(out, "chart:share")
    /\ pc' = "cont"
    /\ UNCHANGED <<all_pat, all_cond, merged, cont, minor_tot, major_tot, ridx,
                   tables, records, res_df, sig_df, exc, varsG, varsF>>

\* groupby(["Condition", "Group"])["Patient_ID"].nunique()
NUnique(m, c, g) ==
    Cardinality({m[i].Patient_ID : i \in {j \in 1..Len(m) :
                                     m[j].Condition = c /\ m[j].Group = g}})

\* lines 203-208: one row per condition of merged, in sorted order, with the
\* columns Minority and Majority (0 where the group has no patient)
ContTable(m) ==
    LET present == SelectSeq(CondOrder, LAMBDA c : \E i \in 1..Len(m) : m[i].Condition = c)
    IN  [k \in 1..Len(present) |->
            [Condition |-> present[k],
             Minority |-> NUnique(m, present[k], "Minority"),
             Majority |-> NUnique(m, present[k], "Majority")]]

\* variant: | in place of &
EnoughCasesEither(row) == row.Minority >= MIN_CASES \/ row.Majority >= MIN_CASES

\* (cont["Minority"] >= MIN_CASES) & (cont["Majority"] >= MIN_CASES)
EnoughCases(row) == row.Minority >= MIN_CASES /\ row.Majority >= MIN_CASES

\* lines 203-210
BuildCont ==
    /\ pc = "cont"
    /\ cont' = SelectSeq(ContTable(merged), EnoughCases)
    /\ pc' = "totals"
    /\ UNCHANGED <<all_pat, all_cond, merged, minor_tot, major_tot, ridx, tables,
                   records, res_df, sig_df, out, exc, varsG, varsF>>

\* variant: the total counted in merged, that is among the patients that
\* have a condition
GroupTotalWithCondition(pat, g) ==
    Max(Cardinality({merged[i].ID : i \in {j \in 1..Len(merged) : merged[j].Group = g}}), 1)

\* max(all_pat[all_pat["Group"] == g]["ID"].nunique(), 1)
GroupTotal(pat, g) ==
    Max(Cardinality({pat[i].ID : i \in {j \in 1..Len(pat) : pat[j].Group = g}}), 1)

\* lines 212-215
Totals ==
    /\ pc = "totals"
    /\ minor_tot' = GroupTotal(all_pat, "Minority")
    /\ major_tot' = GroupTotal(all_pat, "Majority")
    /\ records' = <<>>
    /\ ridx' = 0
    /\ pc' = "loop"
    /\ UNCHANGED <<all_pat, all_cond, merged, cont, tables, res_df, sig_df, out,
                   exc, varsG, varsF>>

\* chi2_contingency raises ValueError on a negative cell and on an expected
\* frequency of zero, that is when a row or a column of the table sums to zero
Chi2Raises(t) ==
    \/ \E i \in 1..2, j \in 1..2 : t[i][j] < 0
    \/ \E i \in 1..2 : t[i][1] + t[i][2] = 0
    \/ \E j \in 1..2 : t[1][j] + t[2][j] = 0

\* chi-square of 3.8431, in 1/10000: above it the p-value of the test with one
\* degree of freedom rounds (4 decimals) to less than 0.05
Chi2Crit == 38431

\* round(p, 4) < 0.05 for the p of chi2_contingency(t, correction=False):
\* chi2 = N (ad - bc)^2 / (row sums * column sums), compared in integers
PSignificant(t) ==
    LET a == t[1][1]
        b == t[1][2]
        c == t[2][1]
        d == t[2][2]
    IN  (a + b + c + d) * (a * d - b * c) * (a * d - b * c) * 10000
            > Chi2Crit * (a + b) * (c + d) * (a + c) * (b + d)

\* num / den rounded to the nearest integer, a tie to the even one
RoundHalfEven(num, den) ==
    LET q == num \div den
        r == num % den
    IN  IF 2 * r < den THEN q
        ELSE IF 2 * r > den THEN q + 1
        ELSE IF q % 2 = 0 THEN q ELSE q + 1

\* variant: truncated, not rounded
RiskRatioTruncated(a, m, b, M) ==
    IF b = 0 \/ m = 0
    THEN [Risk_Ratio |-> 0, finite |-> FALSE]
    ELSE [Risk_Ratio |-> (100 * a * M) \div (b * m), finite |-> TRUE]

\* round((a / m) / (b / M), 2), in hundredths.  The operands are numpy
\* numbers: a division by zero gives inf or nan and raises nothing.
RiskRatio(a, m, b, M) ==
    IF b = 0 \/ m = 0
    THEN [Risk_Ratio |-> 0, finite |-> FALSE]
    ELSE [Risk_Ratio |-> RoundHalfEven(100 * a * M, b * m), finite |-> TRUE]

\* [[row["Minority"], row["Majority"]], [other_minor, other_major]]
TableOf(row) ==
    <<<<row.Minority, row.Majority>>,
      <<Max(minor_tot - row.Minority, 0), Max(major_tot - row.Majority, 0)>>>>

\* lines 216-233, one row of cont.iterrows(): the test raises, or a record is
\* appended
RowStep ==
    /\ pc = "loop" /\ ridx < Len(cont)
    /\ LET row == cont[ridx + 1]
           t == TableOf(row)
           rr == RiskRatio(row.Minority, minor_tot, row.Majority, major_tot)
       IN  /\ tables' = Append(tables, [Condition |-> row.Condition, table |-> t])
           /\ IF Chi2Raises(t)
              THEN /\ exc' = "ValueError"
                   /\ pc' = "raised"
                   /\ UNCHANGED <<records, ridx>>
              ELSE /\ records' = Append(records,
                          [Condition |-> row.Condition,
                           Minority |-> row.Minority,
                           Majority |-> row.Majority,
                           Risk_Ratio |-> rr.Risk_Ratio,
                           finite |-> rr.finite,
                           p_lt_005 |-> PSignificant(t)])
                   /\ ridx' = ridx + 1
                   /\ UNCHANGED <<pc, exc>>
    /\ UNCHANGED <<all_pat, all_cond, merged, cont, minor_tot, major_tot, res_df,
                   sig_df, out, varsG, varsF>>

\* r sorts before s under sort_values("Risk_Ratio", ascending=False)
Before(r, s) ==
    \/ ~r.finite /\ s.finite
    \/ r.finite /\ s.finite /\ r.Risk_Ratio > s.Risk_Ratio

RECURSIVE Insert(_, _)
Insert(r, sorted) ==
    IF sorted = <<>> THEN <<r>>
    ELSE IF Before(r, Head(sorted)) THEN <<r>> \o sorted
    ELSE <<Head(sorted)>> \o Insert(r, Tail(sorted))

RECURSIVE SortValues(_)
SortValues(recs) ==
    IF recs = <<>> THEN <<>>
    ELSE Insert(recs[Len(recs)], SortValues(SubSeq(recs, 1, Len(recs) - 1)))

\* line 235: pd.DataFrame(records).sort_values("Risk_Ratio", ascending=False).
\* A frame made of an empty list has no column: sort_values raises KeyError.
SortResults ==
    /\ pc = "loop" /\ ridx = Len(cont)
    /\ IF records = <<>>
       THEN exc' = "KeyError" /\ pc' = "raised" /\ UNCHANGED res_df
       ELSE res_df' = SortValues(records) /\ pc' = "sig" /\ UNCHANGED exc
    /\ UNCHANGED <<all_pat, all_cond, merged, cont, minor_tot, major_tot, ridx,
                   tables, records, sig_df, out, varsG, varsF>>

\* (res_df["Risk_Ratio"] > 1.2) & (res_df["p_value"] < 0.05)
Significant(r) == (~r.finite \/ r.Risk_Ratio > 120) /\ r.p_lt_005

\* lines 237-249: the chart of the significant conditions, or the message
ShowSignificant ==
    /\ pc = "sig"
    /\ sig_df' = SelectSeq(res_df, Significant)
    /\ out' = Append(out, IF sig_df' # <<>> THEN "chart:rr" ELSE MSG_NO_CONDITION)
    /\ pc' = "heat"
    /\ UNCHANGED <<all_pat, all_cond, merged, cont, minor_tot, major_tot, ridx,
                   tables, records, res_df, exc, varsG, varsF>>

\* lines 250-260
Heatmap ==
    /\ pc = "heat"
    /\ out' = Append(out, "chart:heat")
    /\ pc' = "done"
    /\ UNCHANGED <<all_pat, all_cond, merged, cont, minor_tot, major_tot, ridx,
                   tables, records, res_df, sig_df, exc, varsG, varsF>>

NextAnalysis ==
    \/ MergeTables \/ CheckEmpty \/ ShareChart \/ BuildCont \/ Totals
    \/ RowStep \/ SortResults \/ ShowSignificant \/ Heatmap

SpecAnalysis == InitAnalysis /\ [][NextAnalysis]_vars

\* ------------------------------------------------------------------------
\* Claims on SpecAnalysis, stated on the combined tables all_pat and all_cond

\* the distinct patients of a group
PatientsOf(g) == {all_pat[i].ID : i \in {j \in 1..Len(all_pat) : all_pat[j].Group = g}}

HasCondition(id, c) ==
    \E j \in 1..Len(all_cond) : all_cond[j].Patient_ID = id /\ all_cond[j].Condition = c

\* the distinct patients of a group that have a condition
CasesOf(g, c) == {id \in PatientsOf(g) : HasCondition(id, c)}

Merged == pc \notin {"idle", "merge"}

\* the pairs (patient row, condition row) with equal keys
MatchingPairs ==
    {ij \in (1..Len(all_pat)) \X (1..Len(all_cond)) :
        all_pat[ij[1]].ID = all_cond[ij[2]].Patient_ID}

\* C2: the merged table is the inner join: a patient is in a merged record if
\* and only if some condition record has its ID as Patient_ID; every merged
\* record pairs an existing patient row with an existing condition row of the
\* same id; patients without conditions and conditions without patient never
\* appear.
C2_InnerJoin ==
    Merged =>
        /\ \A i \in 1..Len(all_pat) :
              (\E k \in 1..Len(merged) : merged[k].ID = all_pat[i].ID)
                  <=> (\E j \in 1..Len(all_cond) :
                          all_cond[j].Patient_ID = all_pat[i].ID)
        /\ \A k \in 1..Len(merged) :
              /\ merged[k].ID = merged[k].Patient_ID
              /\ \E i \in 1..Len(all_pat) :
                    all_pat[i] = [ID |-> merged[k].ID, Group |-> merged[k].Group]
              /\ \E j \in 1..Len(all_cond) :
                    all_cond[j] = [Patient_ID |-> merged[k].Patient_ID,
                                   Condition |-> merged[k].Condition]
        /\ \A j \in 1..Len(all_cond) :
              (\A i \in 1..Len(all_pat) : all_pat[i].ID # all_cond[j].Patient_ID)
                  => \A k \in 1..Len(merged) :
                        merged[k].Patient_ID # all_cond[j].Patient_ID
        /\ Len(merged) = Cardinality(MatchingPairs)

\* a merge of tables that hold a patient without condition and a condition
\* without patient, beside matching rows
C2_Witness ==
    /\ pc = "check" /\ merged # <<>>
    /\ \E i \in 1..Len(all_pat) :
          \A j \in 1..Len(all_cond) : all_cond[j].Patient_ID # all_pat[i].ID
    /\ \E j \in 1..Len(all_cond) :
          \A i \in 1..Len(all_pat) : all_pat[i].ID # all_cond[j].Patient_ID

Charts == {"chart:share", "chart:rr", "chart:heat"}

\* C5: when the merged table is empty the run shows "No data available for
\* visualisation." and stops there: nothing of the analysis is computed or
\* shown after it; when the merged table is not empty that message is not shown.
C5_EmptyStops ==
    (Merged /\ pc # "check") =>
        IF merged = <<>>
        THEN /\ pc = "stopped"
             /\ out[Len(out)] = MSG_NO_DATA
             /\ Range(out) \cap (Charts \cup {MSG_NO_CONDITION}) = {}
             /\ cont = <<>> /\ tables = <<>> /\ records = <<>> /\ exc = NoValue
        ELSE /\ pc # "stopped"
             /\ MSG_NO_DATA \notin Range(out)

\* patients and conditions exist, none match, and the run has stopped
C5_Witness ==
    /\ pc = "stopped" /\ all_pat # <<>> /\ all_cond # <<>> /\ merged = <<>>

\* C6: every reported Risk_Ratio is (Minority patients with the condition /
\* Minority patients) / (Majority patients with the condition / Majority
\* patients), counted in distinct patients and rounded to two decimals;
\* patients of group Unknown count nowhere.
C6_RiskRatio ==
    \A k \in 1..Len(records) :
        LET r == records[k]
            a == Cardinality(CasesOf("Minority", r.Condition))
            m == Cardinality(PatientsOf("Minority"))
            b == Cardinality(CasesOf("Majority", r.Condition))
            M == Cardinality(PatientsOf("Majority"))
            err == 200 * a * M - 2 * r.Risk_Ratio * b * m
        IN  /\ r.finite /\ b * m > 0
            /\ r.Minority = a /\ r.Majority = b
            /\ err <= b * m /\ -err <= b * m

\* a ratio of 0.83 (5 of 6 against 6 of 6) reported while a patient of group
\* Unknown has the condition and a condition row is recorded twice
C6_Witness ==
    \E k \in 1..Len(records) :
        /\ records[k].Risk_Ratio = 83
        /\ CasesOf("Unknown", records[k].Condition) # {}
        /\ Len(all_cond) > Cardinality(Range(all_cond))

\* C7: computing the risk ratio never divides by zero: both group totals are
\* at least 1 and every condition a ratio is computed for has at least
\* MIN_CASES distinct Minority and MIN_CASES distinct Majority patients.
C7_NoZeroDivision ==
    pc \in {"loop", "raised", "sig", "heat", "done"} =>
        /\ minor_tot >= 1 /\ major_tot >= 1
        /\ \A k \in 1..Len(cont) :
              /\ Cardinality(CasesOf("Minority", cont[k].Condition)) >= MIN_CASES
              /\ Cardinality(CasesOf("Majority", cont[k].Condition)) >= MIN_CASES
              /\ cont[k].Minority >= MIN_CASES /\ cont[k].Majority >= MIN_CASES
              /\ cont[k].Majority * minor_tot > 0
        /\ \A k \in 1..Len(records) : records[k].finite

\* two ratios have been computed
C7_Witness == pc = "loop" /\ Len(records) = 2 /\ ridx = 2

\* C9: whenever the merged table is not empty the run reaches the end of the
\* analysis with the risk-ratio chart or the message "No condition met the
\* RR > 1.2 & p < 0.05 threshold."; that message is shown, and nothing fails,
\* when no condition has MIN_CASES patients in both groups.  (Stated for the
\* runs the chi-square test did not end, which C10 is about.)
C9_EndsWithOutcome ==
    (pc \in {"done", "raised"} /\ merged # <<>> /\ exc # "ValueError") =>
        /\ pc = "done"
        /\ "chart:rr" \in Range(out) \/ MSG_NO_CONDITION \in Range(out)

\* C10: every table handed to the chi-square test has non-negative cells,
\* columns that sum to the distinct patients of the group, and no row or
\* column that sums to zero, also when every patient has the condition.
C10_TablesWellFormed ==
    \A k \in 1..Len(tables) :
        LET t == tables[k].table
        IN  /\ \A i \in 1..2, j \in 1..2 : t[i][j] >= 0
            /\ t[1][1] + t[2][1] = Cardinality(PatientsOf("Minority"))
            /\ t[1][2] + t[2][2] = Cardinality(PatientsOf("Majority"))
            /\ \A i \in 1..2 : t[i][1] + t[i][2] > 0
            /\ \A j \in 1..2 : t[1][j] + t[2][j] > 0

=============================================================================
